---- MODULE Spec2Model ----
(***************************************************************************)
(* Claim-intake workflow of InsuranceAIAgents.                             *)
(*                                                                         *)
(* Four specifications share this module:                                  *)
(*   Spec          the Streamlit script streamlit_app.py: one action per   *)
(*                 user interaction, each a whole top-to-bottom rerun of   *)
(*                 the script against st.session_state;                    *)
(*   SpecDecide    evaluate_claim applied to arguments from bounded sets;  *)
(*   SpecStages    the assessors and weather lookups of every variant in   *)
(*                 the repository, applied to arguments from bounded sets; *)
(*   SpecPipeline  the record-writing pipeline around db.Claim and         *)
(*                 payments.issue_refund, with the process restarts that   *)
(*                 import db.py.                                           *)
(*                                                                         *)
(* Strings the code inspects (policy numbers, weather labels) are tuples   *)
(* of one-character strings.  Money is in 1/100 of the currency unit, the  *)
(* precision round(.., 2) keeps.                                           *)
(***************************************************************************)
EXTENDS Integers, Sequences, FiniteSets, TLC

VARIABLES
    policy_input,    \* text of the sidebar "Policy number" widget
    policy_valid,    \* st.session_state.get("policy_valid"): "unset", "true", "false"
    ss_policy_no,    \* st.session_state["policy_no"], NoPolicy while the key is absent
    last_validated,  \* history: the policy number of the most recent Validate click
    run,             \* what the most recent script run did and rendered
    refunded,        \* history: the issue_refund calls made so far
    call,            \* SpecFn: the function application under observation
    pipe,            \* SpecPipeline: the submission in flight
    claims,          \* SpecPipeline: rows of the claims table, in insertion order
    decided_runs     \* SpecPipeline history: runs that reached Paid or Denied

vars == <<policy_input, policy_valid, ss_policy_no, last_validated, run, refunded,
          call, pipe, claims, decided_runs>>

appVars == <<policy_input, policy_valid, ss_policy_no, last_validated, run, refunded>>
fnVars == <<call>>
pipeVars == <<pipe, claims, decided_runs>>

----------------------------------------------------------------------------
(* Characters and strings *)

Lowers == <<"a","b","c","d","e","f","g","h","i","j","k","l","m",
            "n","o","p","q","r","s","t","u","v","w","x","y","z">>
Uppers == <<"A","B","C","D","E","F","G","H","I","J","K","L","M",
            "N","O","P","Q","R","S","T","U","V","W","X","Y","Z">>
Digits == {"0","1","2","3","4","5","6","7","8","9"}

Range(s) == {s[i] : i \in 1..Len(s)}

\* str.upper() and str.lower(), character by character
UpperChar(c) ==
    IF \E i \in 1..Len(Lowers) : Lowers[i] = c
    THEN Uppers[CHOOSE i \in 1..Len(Lowers) : Lowers[i] = c]
    ELSE c
LowerChar(c) ==
    IF \E i \in 1..Len(Uppers) : Uppers[i] = c
    THEN Lowers[CHOOSE i \in 1..Len(Uppers) : Uppers[i] = c]
    ELSE c
Upper(s) == [i \in 1..Len(s) |-> UpperChar(s[i])]
Lower(s) == [i \in 1..Len(s) |-> LowerChar(s[i])]

\* str.startswith(prefix)
StartsWith(s, prefix) ==
    /\ Len(s) >= Len(prefix)
    /\ \A i \in 1..Len(prefix) : s[i] = prefix[i]

\* the regular expression class \w on ASCII input
IsWordChar(c) == c \in Range(Lowers) \cup Range(Uppers) \cup Digits \cup {"_"}

POL == <<"P","O","L">>

----------------------------------------------------------------------------
(* Policy validation *)

PolicyMinLen == 6
RegexMinWord == 3

\* streamlit_app.validate_policy
validate_policy(policy_no) ==
    StartsWith(Upper(policy_no), POL) /\ Len(policy_no) >= PolicyMinLen

\* app_utils.policy_api.VALID_POLICIES
VALID_POLICIES ==
    { <<"D","E","M","O","-","1","2","3","4","5">>,
      <<"D","E","M","O","-","6","7","8","9","1","0">>,
      <<"D","E","M","O","-","1","1","1","1","1">>,
      <<"9","9","9","9","9">> }

\* app_utils.policy_api.validate_policy
registry_validate_policy(policy_no) == policy_no \in VALID_POLICIES

\* ClaimInput.policy_no: Field(..., regex=r"POL\w{3,}"), matched from the
\* start of the value (re.match), with nothing required after the match
policy_no_regex(value) ==
    /\ StartsWith(value, POL)
    /\ Len(value) >= Len(POL) + RegexMinWord
    /\ \A i \in (Len(POL) + 1)..(Len(POL) + RegexMinWord) : IsWordChar(value[i])

\* policy numbers handed to the validators
PolicyInputs ==
    { <<>>,
      <<"P","O","L","1","2","3">>,
      <<"P","O","L","1","2">>,
      <<"p","o","l","1","2","3">>,
      <<"P","O","L","-","1","2">>,
      <<"P","o","l","_","1","2","3">>,
      <<"D","E","M","O","-","1","2","3","4","5">>,
      <<"9","9","9","9","9">> }

\* policy numbers a user types into the sidebar
TypedPolicies ==
    { <<"P","O","L","1","2","3">>,
      <<"P","O","L","1","2">>,
      <<"p","o","l","1","2","3">>,
      <<"P","O","L","-","1","2">>,
      <<"D","E","M","O","-","1","2","3","4","5">> }

NoPolicy == <<"<absent>">>

----------------------------------------------------------------------------
(* Stage functions of streamlit_app.py *)

KB == 1024
BaseEstimate == 500
CentsPerKb == 130
HailWindowDays == 7
Threshold == 5000
PostcodeMin == 4
PostcodeMax == 10

ToCents(amount) == amount * 100

\* round(x, 2) of the quotient num/den of hundredths.  Python rounds the
\* binary float; on the byte lengths used below that agrees with rounding the
\* exact quotient half-to-even.
RoundHalfEven(num, den) ==
    LET q == num \div den
        r == num % den
    IN  IF 2 * r < den THEN q
        ELSE IF 2 * r > den THEN q + 1
        ELSE IF q % 2 = 0 THEN q ELSE q + 1

NoPhoto == -1

\* streamlit_app.analyze_damage; photo is the byte length of the upload,
\* NoPhoto for None.  size_kb % 2 is falsy only at whole multiples of 2 KB.
analyze_damage(photo) ==
    IF photo = NoPhoto
    THEN [raised |-> TRUE, type |-> "", estimate |-> 0]
    ELSE [raised   |-> FALSE,
          type     |-> IF photo % (2 * KB) # 0 THEN "hail" ELSE "wind",
          estimate |-> RoundHalfEven(ToCents(BaseEstimate) * KB + photo * CentsPerKb, KB)]

\* streamlit_app.check_weather; days_ago = (today - date_of_loss).days
mock_check_weather(days_ago, damage_type) ==
    IF damage_type = "hail" THEN days_ago <= HailWindowDays ELSE TRUE

WeatherReason == "Weather data does not corroborate the reported peril."
ThresholdReason == "Damage estimate exceeds instant-settlement threshold."
ApprovedReason == "Approved by rules engine."

evaluate_claim_inclusive(damage_info, weather_ok) ==
    IF ~weather_ok
    THEN [approved |-> FALSE, reason |-> WeatherReason]
    ELSE IF damage_info.estimate >= ToCents(Threshold)
         THEN [approved |-> FALSE, reason |-> ThresholdReason]
         ELSE [approved |-> TRUE, reason |-> ApprovedReason]

\* streamlit_app.evaluate_claim (the reasons with plain hyphens)
evaluate_claim(damage_info, weather_ok) ==
    IF ~weather_ok
    THEN [approved |-> FALSE, reason |-> WeatherReason]
    ELSE IF damage_info.estimate > ToCents(Threshold)
         THEN [approved |-> FALSE, reason |-> ThresholdReason]
         ELSE [approved |-> TRUE, reason |-> ApprovedReason]

\* streamlit_app.issue_refund: a fresh transaction id for every call
issue_refund(amount) == <<"TX", amount>>

\* ClaimInput(policy_no=..., date_of_loss=..., postcode=..., photo_file=...):
\* TRUE iff no ValidationError.  st.date_input always yields a date.
ClaimInput(policy_no, postcode_len, photo) ==
    /\ policy_no_regex(policy_no)
    /\ postcode_len >= PostcodeMin
    /\ postcode_len <= PostcodeMax
    /\ photo # NoPhoto

----------------------------------------------------------------------------
(* The Streamlit script: one rerun per user interaction *)

MaxDaysAgo == 8

\* byte lengths of the uploaded photo: empty, odd and even KB counts, and
\* sizes whose estimate lies just below, at and above the threshold
PhotoSizes == {0, 256, 1024, 2048, 3544615, 3545088, 4096000}
UploadSizes == {0, 1024, 2048, 3544615, 3545088}
PostcodeLens == {3, 4, 10, 11}
DaysAgo == {0} \cup (HailWindowDays - 1)..MaxDaysAgo

FormInputs ==
    [days_ago : DaysAgo, postcode_len : PostcodeLens,
     photo : UploadSizes \cup {NoPhoto}]
NoForm == [days_ago |-> 0, postcode_len |-> 0, photo |-> NoPhoto]

IdleRun ==
    [trigger |-> "load", form_shown |-> FALSE, stage |-> "idle",
     photo |-> NoPhoto, days_ago |-> 0, postcode_len |-> 0,
     dtype |-> "", estimate |-> 0, weather_ok |-> FALSE,
     approved |-> FALSE, reason |-> "", refund_button |-> FALSE,
     paid |-> FALSE, calls |-> {}]

SidebarPolicyValidNoElse(old, val_btn, is_valid) ==
    IF val_btn /\ is_valid THEN "true" ELSE old

\* session_state["policy_valid"] after the sidebar block
SidebarPolicyValid(old, val_btn, is_valid) ==
    IF val_btn THEN (IF is_valid THEN "true" ELSE "false") ELSE old

\* session_state["policy_no"] after the sidebar block
SidebarPolicyNo(old, val_btn, is_valid, text) ==
    IF val_btn /\ is_valid THEN text ELSE old

\* if st.session_state.get("policy_valid"):
FormGate(pv) == pv = "true"

RefundIssuedUnguarded(approved, refund_btn) == TRUE

\* the outcome panel reaches issue_refund in its approved branch, and there
\* only when st.button("Process refund") returns True in this very run
RefundIssued(approved, refund_btn) == approved /\ refund_btn

\* the body of "if submit:"
Workflow(policy_no, form, refund_btn) ==
    LET entered == [IdleRun EXCEPT !.photo = form.photo,
                                   !.days_ago = form.days_ago,
                                   !.postcode_len = form.postcode_len]
    IN  IF ~ClaimInput(policy_no, form.postcode_len, form.photo)
        THEN [entered EXCEPT !.stage = "invalid_input"]
        ELSE LET damage == analyze_damage(form.photo) IN
             IF damage.raised
             THEN [entered EXCEPT !.stage = "error", !.calls = {"analyze_damage"}]
             ELSE LET weather_ok == mock_check_weather(form.days_ago, damage.type)
                      decision == evaluate_claim(damage, weather_ok)
                      paid == RefundIssued(decision.approved, refund_btn)
                  IN  [entered EXCEPT
                         !.stage = "decided",
                         !.dtype = damage.type,
                         !.estimate = damage.estimate,
                         !.weather_ok = weather_ok,
                         !.approved = decision.approved,
                         !.reason = decision.reason,
                         !.refund_button = decision.approved,
                         !.paid = paid,
                         !.calls = {"analyze_damage", "check_weather", "evaluate_claim"}
                                   \cup (IF paid THEN {"issue_refund"} ELSE {})]

\* One run of the script.  trig names the widget whose interaction caused the
\* rerun: a button returns True only in the rerun its own click caused.
ScriptRun(trig, text, form) ==
    LET val_btn == trig = "validate"
        submit == trig = "submit"
        refund_btn == trig = "refund"
        is_valid == validate_policy(text)
        pv == SidebarPolicyValid(policy_valid, val_btn, is_valid)
        pno == SidebarPolicyNo(ss_policy_no, val_btn, is_valid, text)
        shown == FormGate(pv)
        out == IF shown /\ submit THEN Workflow(pno, form, refund_btn) ELSE IdleRun
    IN  /\ policy_input' = text
        /\ policy_valid' = pv
        /\ ss_policy_no' = pno
        /\ last_validated' = IF val_btn THEN text ELSE last_validated
        /\ run' = [out EXCEPT !.trigger = trig, !.form_shown = shown]
        /\ refunded' = refunded \cup
               (IF out.paid
                THEN {[tx |-> issue_refund(out.estimate), amount |-> out.estimate,
                       approved |-> out.approved, weather_ok |-> out.weather_ok]}
                ELSE {})
        /\ UNCHANGED <<fnVars, pipeVars>>

\* typing into the sidebar text input
EditPolicy ==
    \E text \in TypedPolicies :
        /\ text # policy_input
        /\ ScriptRun("edit", text, NoForm)

\* the sidebar button "Validate"
ClickValidate ==
    \E text \in {policy_input} : ScriptRun("validate", text, NoForm)

\* the form button "Submit claim", there to click when the last run drew the form
ClickSubmit ==
    /\ run.form_shown
    /\ \E form \in FormInputs : ScriptRun("submit", policy_input, form)

\* the button "Process refund", there to click when the last run drew it
ClickRefund ==
    /\ run.refund_button
    /\ ScriptRun("refund", policy_input, NoForm)

NoCall == [fn |-> "none"]
NoPipe == [state |-> "Idle"]

Init ==
    /\ policy_input = <<>>
    /\ policy_valid = "unset"
    /\ ss_policy_no = NoPolicy
    /\ last_validated = NoPolicy
    /\ run = IdleRun
    /\ refunded = {}
    /\ call = NoCall
    /\ pipe = NoPipe
    /\ claims = <<>>
    /\ decided_runs = 0

Next == EditPolicy \/ ClickValidate \/ ClickSubmit \/ ClickRefund

Spec == Init /\ [][Next]_vars

----------------------------------------------------------------------------
(* Properties of the Streamlit script *)

\* C1: a stage of the workflow (analyze_damage and everything after it) runs
\* only in a script run in which session_state["policy_valid"] is true, and
\* policy_valid is true only if the most recent Validate click was on a policy
\* number validate_policy accepts; a run whose gate is closed processes no
\* submission at all.
C1_PolicyGate ==
    /\ run.calls # {} => policy_valid = "true"
    /\ run.stage # "idle" => policy_valid = "true"
    /\ policy_valid = "true" =>
           /\ last_validated # NoPolicy
           /\ validate_policy(last_validated)
           /\ ss_policy_no = last_validated
    /\ policy_valid = "false" =>
           /\ last_validated # NoPolicy
           /\ ~validate_policy(last_validated)

\* a submitted claim went through assessment, weather check and decision
C1_Witness ==
    /\ run.trigger = "submit"
    /\ "analyze_damage" \in run.calls
    /\ "evaluate_claim" \in run.calls
    /\ policy_valid = "true"

\* C2: once a claim is approved and the user presses "Process refund", the run
\* that handles the press calls issue_refund for the approved estimate.
C2_ApprovedReachesPaid ==
    [][(run.stage = "decided" /\ run.approved /\ run'.trigger = "refund")
          => (run'.paid /\ refunded' # refunded)]_vars

\* C4: issue_refund is called only for a submission evaluate_claim approved,
\* so only with corroborating weather and an estimate of at most 5000.
C4_NoPayoutForDenied ==
    /\ run.paid => (run.stage = "decided" /\ run.approved)
    /\ "issue_refund" \in run.calls => run.approved
    /\ \A r \in refunded :
           /\ r.approved
           /\ r.weather_ok
           /\ r.amount <= ToCents(Threshold)

\* a denied claim was shown, and nothing was paid for it
C4_Witness ==
    /\ run.stage = "decided"
    /\ ~run.approved
    /\ run.reason = ThresholdReason
    /\ ~run.paid
    /\ refunded = {}

\* C9: every policy number the sidebar accepts passes the ClaimInput format
\* check at submit, and the two validate_policy variants agree on the policy
\* numbers put to them.
C9_PolicyFormatConsistent ==
    /\ policy_valid = "true" => policy_no_regex(ss_policy_no)
    /\ last_validated # NoPolicy =>
           (validate_policy(last_validated) <=> registry_validate_policy(last_validated))

\* C10: a submission with an absent or empty photo ends in an input error or
\* in the no-evidence assessment (unknown, 0), and is never approved.
C10_EmptyPhotoNeverApproved ==
    (run.trigger = "submit" /\ run.photo \in {NoPhoto, 0}) =>
        /\ \/ run.stage \in {"invalid_input", "error"}
           \/ (run.dtype = "unknown" /\ run.estimate = 0)
        /\ ~run.approved

----------------------------------------------------------------------------
(* The decision engine on its own: one application per behaviour, its     *)
(* arguments drawn from the sets below                                     *)

EstimateMargin == 2

DamageTypes ==
    {"rain_damage", "hail_damage", "fire_damage", "other", "unknown", "hail", "wind"}

\* estimates in hundredths: none, the minimum, an ordinary one, the values
\* around the threshold, and one far above it
Estimates ==
    {0, ToCents(BaseEstimate), 120000, 600000}
    \cup (ToCents(Threshold) - EstimateMargin)..(ToCents(Threshold) + EstimateMargin)

CallEvaluateClaim ==
    /\ call = NoCall
    /\ \E type \in DamageTypes, estimate \in Estimates, weather_ok \in BOOLEAN :
           LET damage_info == [type |-> type, estimate |-> estimate]
           IN  call' = [fn |-> "evaluate_claim",
                        damage_info |-> damage_info,
                        weather_ok |-> weather_ok,
                        result |-> evaluate_claim(damage_info, weather_ok)]
    /\ UNCHANGED <<appVars, pipeVars>>

NextDecide == CallEvaluateClaim

SpecDecide == Init /\ [][NextDecide]_vars

\* C3: evaluate_claim follows the first-match-wins rule: without corroborating
\* weather it denies with the weather reason whatever the estimate; otherwise
\* an estimate above 5000 is denied with the threshold reason; otherwise
\* (5000 exactly included) the claim is approved; the damage type plays no part.
C3_FirstMatchWins ==
    call.fn = "evaluate_claim" =>
        LET est == call.damage_info.estimate
            w == call.weather_ok
            res == call.result
        IN  /\ ~w => (~res.approved /\ res.reason = WeatherReason)
            /\ (w /\ est > 500000) => (~res.approved /\ res.reason = ThresholdReason)
            /\ (w /\ est <= 500000) => (res.approved /\ res.reason = ApprovedReason)

\* an estimate of exactly 5000 with corroborating weather was approved
C3_Witness ==
    /\ call.fn = "evaluate_claim"
    /\ call.weather_ok
    /\ call.damage_info.estimate = 500000
    /\ call.result.approved

----------------------------------------------------------------------------
(* The assessors and the weather lookups of every variant *)

ClampMin == 500
ClampMax == 5000
AreaDivisor == 1000
MaxClass == 3
MaxDetections == 2
MaxHours == 2
MaxLabels == 1

Min(a, b) == IF a <= b THEN a ELSE b
Max(a, b) == IF a >= b THEN a ELSE b

SeqsUpTo(S, n) == UNION {[1..k -> S] : k \in 0..n}

\* int(x / d): truncation towards zero
TruncDiv(x, d) == IF x >= 0 THEN x \div d ELSE -((-x) \div d)

\* utils.image_processing.CATEGORY_MAPPING.get(cls, 'other')
CATEGORY_MAPPING(cls) ==
    CASE cls = 0 -> "rain_damage"
      [] cls = 1 -> "fire_damage"
      [] cls = 2 -> "other"
      [] OTHER -> "other"

\* utils.image_processing.analyze_damage.  upload is what the caller hands
\* over: "none" (no file: None has no read()), "empty" or "not_image" (bytes
\* PIL cannot open) or "image"; det is the detector's result.xyxy[0], rows of
\* box corners and class.  The estimate is returned in hundredths.
yolo_analyze_damage(upload, det) ==
    IF upload # "image"
    THEN [raised |-> TRUE, type |-> "", estimate |-> 0]
    ELSE IF Len(det) = 0
    THEN [raised |-> FALSE, type |-> "unknown", estimate |-> 0]
    ELSE LET box == det[1]
             area == (box.x1 - box.x0) * (box.y1 - box.y0)
         IN  [raised   |-> FALSE,
              type     |-> CATEGORY_MAPPING(box.cls),
              estimate |-> ToCents(Max(ClampMin, Min(ClampMax, TruncDiv(area, AreaDivisor))))]

Uploads == {"none", "empty", "not_image", "image"}
Boxes ==
    [x0 : {0}, y0 : {0, 100}, x1 : {10, 3000}, y1 : {800, 3100}, cls : 0..MaxClass]
Detections == SeqsUpTo(Boxes, MaxDetections)

HAIL == <<"h","a","i","l">>

\* weather[i]['main'] of an hourly record; <<>> where the key is missing
WeatherLabels ==
    { <<>>, <<"H","a","i","l">>, <<"h","a","i","l">>, <<"R","a","i","n">> }

\* hour['rain']['1h'] in hundredths of a millimetre: <<>> where hour has no
\* 'rain' entry, <<amount>> otherwise
RainValues == { <<>>, <<0>>, <<25>> }

Hours == [rain : RainValues, weather : SeqsUpTo(WeatherLabels, MaxLabels)]
HourlyLists == SeqsUpTo(Hours, MaxHours)

\* hour.get('rain', {}).get('1h', 0)
Rain1h(hour) == IF hour.rain = <<>> THEN 0 ELSE hour.rain[1]

\* What the weather service does with a call.  geo and weather are the
\* outcomes of the two requests: "conn_error" (requests raises),
\* "http_error" (an error status with a JSON object as body), "empty" (an
\* empty geocoding list) or "ok".  Without an API key the service answers
\* no request with data, and a request that is never answered carries none.
WeatherEnvs ==
    { e \in [key : BOOLEAN,
             geo : {"conn_error", "http_error", "empty", "ok"},
             weather : {"conn_error", "http_error", "ok"},
             hourly : HourlyLists] :
        /\ ~e.key => (e.geo \in {"conn_error", "http_error"}
                      /\ e.weather \in {"conn_error", "http_error"})
        /\ e.weather # "ok" => e.hourly = <<>> }

Returned(value) == [raised |-> FALSE, value |-> value]
Raised == [raised |-> TRUE, value |-> FALSE]

\* the loop over data['hourly'] of app_utils.weather_api.check_weather
RECURSIVE AppHourlyScan(_, _, _)
AppHourlyScan(hourly, i, damage_type) ==
    IF i > Len(hourly) THEN FALSE
    ELSE IF damage_type = "rain_damage" /\ Rain1h(hourly[i]) > 0 THEN TRUE
    ELSE IF /\ damage_type = "hail_damage"
            /\ \E j \in 1..Len(hourly[i].weather) : Lower(hourly[i].weather[j]) = HAIL
         THEN TRUE
    ELSE AppHourlyScan(hourly, i + 1, damage_type)

\* app_utils.weather_api.check_weather
app_check_weather(env, damage_type) ==
    IF ~env.key THEN Returned(FALSE)
    ELSE IF env.geo # "ok" THEN Returned(FALSE)
    ELSE IF env.weather # "ok" THEN Returned(FALSE)
    ELSE Returned(AppHourlyScan(env.hourly, 1, damage_type))

\* the loop over res['hourly'] of utils.weather_api.check_weather
RECURSIVE UtilsHourlyScan(_, _, _)
UtilsHourlyScan(hourly, i, damage_type) ==
    IF i > Len(hourly) THEN FALSE
    ELSE IF damage_type = "rain_damage" /\ Rain1h(hourly[i]) > 0 THEN TRUE
    ELSE UtilsHourlyScan(hourly, i + 1, damage_type)

\* utils.weather_api.check_weather: no key check and no try; .json()[0] on a
\* failed or empty geocoding answer raises, an error body of the weather
\* request has no 'hourly' entry
utils_check_weather(env, damage_type) ==
    IF env.geo # "ok" THEN Raised
    ELSE IF env.weather = "conn_error" THEN Raised
    ELSE Returned(UtilsHourlyScan(IF env.weather = "ok" THEN env.hourly ELSE <<>>,
                                  1, damage_type))

CallAnalyzeDamage ==
    /\ call = NoCall
    /\ \E photo \in PhotoSizes \cup {NoPhoto} :
           call' = [fn |-> "analyze_damage", variant |-> "file_size",
                    photo |-> photo, result |-> analyze_damage(photo)]
    /\ UNCHANGED <<appVars, pipeVars>>

CallYoloAnalyzeDamage ==
    /\ call = NoCall
    /\ \E upload \in Uploads, det \in Detections :
           /\ upload # "image" => det = <<>>
           /\ call' = [fn |-> "analyze_damage", variant |-> "detection",
                       upload |-> upload, det |-> det,
                       result |-> yolo_analyze_damage(upload, det)]
    /\ UNCHANGED <<appVars, pipeVars>>

CallMockCheckWeather ==
    /\ call = NoCall
    /\ \E days_ago \in 0..MaxDaysAgo, damage_type \in DamageTypes :
           call' = [fn |-> "check_weather", variant |-> "mock",
                    days_ago |-> days_ago, damage_type |-> damage_type,
                    result |-> Returned(mock_check_weather(days_ago, damage_type))]
    /\ UNCHANGED <<appVars, pipeVars>>

CallAppCheckWeather ==
    /\ call = NoCall
    /\ \E env \in WeatherEnvs, damage_type \in DamageTypes :
           call' = [fn |-> "check_weather", variant |-> "app_utils",
                    env |-> env, damage_type |-> damage_type,
                    result |-> app_check_weather(env, damage_type)]
    /\ UNCHANGED <<appVars, pipeVars>>

CallUtilsCheckWeather ==
    /\ call = NoCall
    /\ \E env \in WeatherEnvs, damage_type \in DamageTypes :
           call' = [fn |-> "check_weather", variant |-> "utils",
                    env |-> env, damage_type |-> damage_type,
                    result |-> utils_check_weather(env, damage_type)]
    /\ UNCHANGED <<appVars, pipeVars>>

NextStages ==
    \/ CallAnalyzeDamage
    \/ CallYoloAnalyzeDamage
    \/ CallMockCheckWeather
    \/ CallAppCheckWeather
    \/ CallUtilsCheckWeather

SpecStages == Init /\ [][NextStages]_vars

\* C5: every assessment analyze_damage returns, detection-based or
\* file-size-based, has its estimate within [500, 5000].
C5_EstimateWithinBounds ==
    (call.fn = "analyze_damage" /\ ~call.result.raised) =>
        /\ call.result.estimate >= ToCents(ClampMin)
        /\ call.result.estimate <= ToCents(ClampMax)

LookupFailed(env) == ~env.key \/ env.geo # "ok" \/ env.weather # "ok"

\* C6: when the API key is missing, the geocoding request fails or comes back
\* empty, or the historical-weather request fails, check_weather returns
\* False and raises nothing.
C6_WeatherNeverRaises ==
    (call.fn = "check_weather" /\ call.variant # "mock" /\ LookupFailed(call.env)) =>
        (~call.result.raised /\ ~call.result.value)

\* the corroboration rule of the weather contract
Corroborated(damage_type, hourly) ==
    \/ /\ damage_type = "rain_damage"
       /\ \E i \in 1..Len(hourly) : Rain1h(hourly[i]) > 0
    \/ /\ damage_type = "hail_damage"
       /\ \E i \in 1..Len(hourly) :
              \E j \in 1..Len(hourly[i].weather) : Lower(hourly[i].weather[j]) = HAIL

\* C7: check_weather returns True iff the category is rain and some hour has
\* precipitation > 0, or the category is hail and some hour carries the label
\* "hail" in any case; for every other category it returns False.
C7_WeatherDecisionRule ==
    call.fn = "check_weather" =>
        IF call.variant = "mock"
        THEN call.damage_type \notin {"rain_damage", "hail_damage", "hail"}
                 => ~call.result.value
        ELSE ~LookupFailed(call.env) =>
                 /\ ~call.result.raised
                 /\ call.result.value = Corroborated(call.damage_type, call.env.hourly)

----------------------------------------------------------------------------
(* The record-writing pipeline: policy check, assessment, weather check,   *)
(* decision, payout, audit row                                             *)

MaxClaims == 2

\* refund_tx of a row without payout (NULL)
NoTx == <<>>

\* app_utils.payments.issue_refund: the id of the Stripe refund, or the error
\* Stripe raises; n numbers the refunds Stripe has created
stripe_issue_refund(amount, outcome, n) ==
    IF outcome = "ok"
    THEN [raised |-> FALSE, id |-> <<"re", n>>]
    ELSE [raised |-> TRUE, id |-> NoTx]

\* app_utils.db.Claim: one row of the claims table
Claim(id, policy_no, damage_info, weather_ok, approved, notes, refund_tx) ==
    [id |-> id, policy_no |-> policy_no, damage_info |-> damage_info,
     weather_ok |-> weather_ok, approved |-> approved, notes |-> notes,
     refund_tx |-> refund_tx]

RainyEnv ==
    [key |-> TRUE, geo |-> "ok", weather |-> "ok",
     hourly |-> << [rain |-> <<25>>, weather |-> << <<"R","a","i","n">> >>] >>]
NoKeyEnv ==
    [key |-> FALSE, geo |-> "http_error", weather |-> "http_error", hourly |-> <<>>]
RainBox == [x0 |-> 0, y0 |-> 0, x1 |-> 3000, y1 |-> 800, cls |-> 0]

Submissions ==
    [policy : { <<"D","E","M","O","-","1","2","3","4","5">>,
                <<"P","O","L","1","2","3">> },
     upload : {"image", "empty"},
     det : { <<>>, <<RainBox>> },
     env : {RainyEnv, NoKeyEnv}]

NoAssessment == [raised |-> FALSE, type |-> "", estimate |-> 0]
NoDecision == [approved |-> FALSE, reason |-> ""]

\* Received: a submission enters the pipeline
Receive ==
    /\ pipe.state \in {"Idle", "Done", "Rejected", "Failed"}
    /\ decided_runs < MaxClaims
    /\ \E sub \in Submissions :
           /\ sub.upload # "image" => sub.det = <<>>
           /\ pipe' = [state |-> "Received", sub |-> sub,
                       assessment |-> NoAssessment, weather_ok |-> FALSE,
                       decision |-> NoDecision, tx |-> NoTx]
    /\ UNCHANGED <<appVars, fnVars, claims, decided_runs>>

\* Received -> PolicyChecked | Rejected
CheckPolicy ==
    /\ pipe.state = "Received"
    /\ pipe' = [pipe EXCEPT !.state =
                   IF registry_validate_policy(pipe.sub.policy)
                   THEN "PolicyChecked" ELSE "Rejected"]
    /\ UNCHANGED <<appVars, fnVars, claims, decided_runs>>

\* PolicyChecked -> Assessed; an assessor that raises ends the submission
Assess ==
    /\ pipe.state = "PolicyChecked"
    /\ LET a == yolo_analyze_damage(pipe.sub.upload, pipe.sub.det)
       IN  pipe' = [pipe EXCEPT !.state = IF a.raised THEN "Failed" ELSE "Assessed",
                                !.assessment = a]
    /\ UNCHANGED <<appVars, fnVars, claims, decided_runs>>

\* Assessed -> WeatherChecked
CheckWeather ==
    /\ pipe.state = "Assessed"
    /\ pipe' = [pipe EXCEPT
                   !.state = "WeatherChecked",
                   !.weather_ok = app_check_weather(pipe.sub.env, pipe.assessment.type).value]
    /\ UNCHANGED <<appVars, fnVars, claims, decided_runs>>

\* WeatherChecked -> Decided
Decide ==
    /\ pipe.state = "WeatherChecked"
    /\ pipe' = [pipe EXCEPT
                   !.state = "Decided",
                   !.decision = evaluate_claim(pipe.assessment, pipe.weather_ok)]
    /\ UNCHANGED <<appVars, fnVars, claims, decided_runs>>

\* Decided -> Paid, or Failed when the payout raises (no row is written)
Pay ==
    /\ pipe.state = "Decided"
    /\ pipe.decision.approved
    /\ \E outcome \in {"ok", "error"} :
           LET r == stripe_issue_refund(pipe.assessment.estimate, outcome, decided_runs + 1)
           IN  IF r.raised
               THEN /\ pipe' = [pipe EXCEPT !.state = "Failed"]
                    /\ UNCHANGED decided_runs
               ELSE /\ pipe' = [pipe EXCEPT !.state = "Paid", !.tx = r.id]
                    /\ decided_runs' = decided_runs + 1
    /\ UNCHANGED <<appVars, fnVars, claims>>

\* Decided -> Denied
Deny ==
    /\ pipe.state = "Decided"
    /\ ~pipe.decision.approved
    /\ pipe' = [pipe EXCEPT !.state = "Denied"]
    /\ decided_runs' = decided_runs + 1
    /\ UNCHANGED <<appVars, fnVars, claims>>

\* Paid | Denied -> Recorded: one row appended, its id the next in sequence
Record ==
    /\ pipe.state \in {"Paid", "Denied"}
    /\ claims' = Append(claims,
                        Claim(Len(claims) + 1, pipe.sub.policy,
                              [type |-> pipe.assessment.type,
                               estimate |-> pipe.assessment.estimate],
                              pipe.weather_ok, pipe.decision.approved,
                              pipe.decision.reason, pipe.tx))
    /\ pipe' = [pipe EXCEPT !.state = "Recorded"]
    /\ UNCHANGED <<appVars, fnVars, decided_runs>>

\* Recorded -> Done
Finish ==
    /\ pipe.state = "Recorded"
    /\ pipe' = [pipe EXCEPT !.state = "Done"]
    /\ UNCHANGED <<appVars, fnVars, claims, decided_runs>>

\* A start of the application process: importing app_utils.db removes
\* <repository>/claims.db when it exists, before the engine opens claims.db
\* in the working directory.  The two are the same file when the process is
\* started in the repository root.  Only restarts between submissions are
\* modelled.
Restart ==
    /\ pipe.state \in {"Idle", "Done", "Rejected", "Failed"}
    /\ \E started_in_root \in BOOLEAN :
           claims' = IF started_in_root THEN <<>> ELSE claims
    /\ pipe' = NoPipe
    /\ UNCHANGED <<appVars, fnVars, decided_runs>>

NextPipeline ==
    \/ Restart
    \/ Receive
    \/ CheckPolicy
    \/ Assess
    \/ CheckWeather
    \/ Decide
    \/ Pay
    \/ Deny
    \/ Record
    \/ Finish

SpecPipeline == Init /\ [][NextPipeline]_vars

RowsConsistent ==
    /\ \A i \in 1..Len(claims) :
           /\ claims[i].approved <=> claims[i].refund_tx # NoTx
           /\ claims[i].id = i
           /\ registry_validate_policy(claims[i].policy_no)
    /\ Len(claims) = decided_runs - (IF pipe.state \in {"Paid", "Denied"} THEN 1 ELSE 0)

AppendOnly ==
    /\ Len(claims') >= Len(claims)
    /\ SubSeq(claims', 1, Len(claims)) = claims

\* C8: a Claim row is created exactly once for every run that reaches a
\* decision (paid or denied) and for no other run, every row has
\* approved = true exactly when refund_tx is set, and rows are never changed
\* or removed once written.
C8_AuditLog == []RowsConsistent /\ [][AppendOnly]_vars

====
